---- MODULE Spec2Model ----
(***************************************************************************)
(* auto-mihomo: the update orchestrator and control surface of             *)
(* scripts/mcp_server.py and the latency prober of scripts/test_nodes.py.  *)
(*                                                                         *)
(* mcp_server.py runs on one asyncio event loop: a coroutine runs without  *)
(* interruption from one await to the next, so every action below is the   *)
(* code between two awaits of one coroutine.                               *)
(***************************************************************************)
EXTENDS Integers, Sequences, FiniteSets, TLC

VARIABLES
    _state,       \* mcp_server.py:50 the process-wide status dict
    inflight,     \* POST /mcp/update requests received and not yet handled
    log,          \* the UpdateResponse of every handled POST /mcp/update
    tasks,        \* the _run_update tasks created so far, in creation order
    procs,        \* the child process of each task
    status_resp,  \* the last StatusResponse returned by GET /mcp/status
    sw,           \* the POST /mcp/switch request being served
    proxies,      \* test_nodes.py:68 the proxies of the subscription file
    args,         \* test_nodes.py:62 --workers and --timeout
    futures,      \* test_nodes.py:79 the future of each submitted probe
    results,      \* test_nodes.py:77 the results list
    main          \* test_nodes.py:51 where main() is, its exit status and output

orchVars == <<_state, inflight, log, tasks, procs, status_resp>>
probeVars == <<proxies, args, futures, results, main>>
vars == <<orchVars, sw, probeVars>>

\* ------------------------------------------------------------------ bounds

\* HTTP clients that may have a POST /mcp/update in flight at the same time
NumClients == 2
\* POST /mcp/update requests received in one behaviour
MaxRequests == 2

Clients == 1 .. NumClients

\* ------------------------------------------------------- program constants

\* asyncio.wait_for(proc.communicate(), timeout=180)
TIMEOUT == 180
\* the [-3000:] slices
TAIL == 3000

\* ------------------------------------------------------------ environment

\* seconds the pipeline needs to finish on its own
Seconds == {60, 180, 200}
ExitCodes == {0, 1}
\* what datetime.now() may read
Clock == {1, 2}
\* characters the pipeline writes to stdout and stderr before it exits
Outputs == {[out |-> 0, err |-> 3001], [out |-> 3000, err |-> 5], [out |-> 3001, err |-> 0]}

None == <<>>
Some(x) == <<x>>

Max(a, b) == IF a >= b THEN a ELSE b

\* how long a child runs: Some(d) seconds, or None when it never exits by itself
Durations == {Some(d) : d \in Seconds} \cup {None}

\* what can make asyncio.create_subprocess_exec raise (str(e) of the exception)
ExecErrors == {"FileNotFoundError: bash"}

\* ------------------------------------------------------------- the state

InitState ==
    [update_running |-> FALSE,
     last_update_time |-> None,
     last_update_result |-> None,
     update_count |-> 0]

NoProc == [st |-> "none", dur |-> None, rc |-> None, out |-> 0, err |-> 0]

\* a child that has exited and whose Process object nothing reads any more
Reaped == [NoProc EXCEPT !.st = "exited"]

NoRequest == [pend |-> FALSE, arrRunning |-> FALSE, arrCount |-> 0]

NoSwitch == [pc |-> "off"]

\* test_nodes.py is not running
NoProbing ==
    /\ proxies = <<>>
    /\ args = [workers |-> 0, timeout |-> 0]
    /\ futures = <<>>
    /\ results = <<>>
    /\ main = [pc |-> "off"]

\* -------------------------------------------------------- POST /mcp/update

\* a request reaches the server; the handler has not run yet
Arrive(c) ==
    /\ ~inflight[c].pend
    /\ Len(log) + Cardinality({d \in Clients : inflight[d].pend}) < MaxRequests
    /\ inflight' = [inflight EXCEPT ![c] =
           [pend |-> TRUE,
            arrRunning |-> _state.update_running,
            arrCount |-> _state.update_count]]
    /\ UNCHANGED <<_state, log, tasks, procs, status_resp, sw, probeVars>>

\* the guard of line 138 left out
IsBusyNever(st) == FALSE

\* the guard of lines 138-143
IsBusy(st) == st.update_running

\* asyncio.create_task(_run_update()): the coroutine is scheduled, not run
CreatedTask == [pc |-> "created", end |-> ""]

UpdateResponse(c, status) ==
    [status |-> status,
     count |-> _state.update_count,
     arrRunning |-> inflight[c].arrRunning,
     arrCount |-> inflight[c].arrCount]

\* a handler that clears the last result when it accepts
trigger_updateClearsResult(c) ==
    /\ inflight[c].pend
    /\ inflight' = [inflight EXCEPT ![c] = NoRequest]
    /\ IF IsBusy(_state)
       THEN /\ log' = Append(log, UpdateResponse(c, "busy"))
            /\ UNCHANGED <<_state, tasks, procs>>
       ELSE /\ _state' = [_state EXCEPT !.update_running = TRUE,
                                        !.last_update_result = None]
            /\ tasks' = Append(tasks, CreatedTask)
            /\ procs' = Append(procs, NoProc)
            /\ log' = Append(log, UpdateResponse(c, "accepted"))
    /\ UNCHANGED <<status_resp, sw, probeVars>>

\* the handler: no await between the check and the set
trigger_update(c) ==
    /\ inflight[c].pend
    /\ inflight' = [inflight EXCEPT ![c] = NoRequest]
    /\ IF IsBusy(_state)
       THEN /\ log' = Append(log, UpdateResponse(c, "busy"))
            /\ UNCHANGED <<_state, tasks, procs>>
       ELSE /\ _state' = [_state EXCEPT !.update_running = TRUE]
            /\ tasks' = Append(tasks, CreatedTask)
            /\ procs' = Append(procs, NoProc)
            /\ log' = Append(log, UpdateResponse(c, "accepted"))
    /\ UNCHANGED <<status_resp, sw, probeVars>>

\* ---------------------------------------------------------- _run_update

\* a decoded stream: characters lo .. hi of what the child wrote
Decode(n) == [lo |-> 1, hi |-> n]

StrLen(s) == s.hi - s.lo + 1

\* s[:k]
FirstChars(s, k) == [lo |-> s.lo, hi |-> IF s.hi - s.lo + 1 > k THEN s.lo + k - 1 ELSE s.hi]

\* s[-k:]
LastChars(s, k) == [lo |-> Max(s.lo, s.hi - k + 1), hi |-> s.hi]

\* line 106 left out: success whatever the exit status
CompletedResultSuccess(p) ==
    [success |-> TRUE,
     returncode |-> p.rc[1],
     stdout |-> LastChars(Decode(p.out), TAIL),
     stderr |-> LastChars(Decode(p.err), TAIL)]

\* lines 105-110
CompletedResult(p) ==
    [success |-> p.rc = Some(0),
     returncode |-> p.rc[1],
     stdout |-> LastChars(Decode(p.out), TAIL),
     stderr |-> LastChars(Decode(p.err), TAIL)]

\* lines 112-115
TimeoutResult == [success |-> FALSE, error |-> "update timed out (180s)"]

\* lines 117-120
ErrorResult(e) == [success |-> FALSE, error |-> e]

\* line 124 left out
FinallyKeepsCount(st, t) ==
    [st EXCEPT !.update_running = FALSE, !.last_update_time = Some(t)]

\* line 123 left out
FinallyKeepsTime(st, t) ==
    [st EXCEPT !.update_running = FALSE, !.update_count = @ + 1]

\* lines 121-124
Finally(st, t) ==
    [st EXCEPT !.update_running = FALSE,
               !.last_update_time = Some(t),
               !.update_count = @ + 1]

\* the finally block alone: the result is not stored in the same step
CompleteCountOnly(i, end, result) ==
    /\ tasks' = [tasks EXCEPT ![i] = [pc |-> "done", end |-> end]]
    /\ \E t \in Clock : _state' = Finally(_state, t)

\* the except/else branch and the finally block run without an await between
Complete(i, end, result) ==
    /\ tasks' = [tasks EXCEPT ![i] = [pc |-> "done", end |-> end]]
    /\ \E t \in Clock :
          _state' = Finally([_state EXCEPT !.last_update_result = Some(result)], t)

\* the task's first step: lines 95-102, then it waits at line 103
TaskStart(i) ==
    /\ tasks[i].pc = "created"
    /\ \/ /\ \E d \in Durations :
                procs' = [procs EXCEPT ![i] = [NoProc EXCEPT !.st = "alive", !.dur = d]]
          /\ tasks' = [tasks EXCEPT ![i].pc = "waiting"]
          /\ UNCHANGED _state
       \/ /\ \E e \in ExecErrors : Complete(i, "error", ErrorResult(e))
          /\ UNCHANGED procs
    /\ UNCHANGED <<inflight, log, status_resp, sw, probeVars>>

\* the child exits by itself, after the time it needs: a child that needs more
\* than TIMEOUT seconds is still running when the timeout fires
ProcExit(i) ==
    /\ procs[i].st = "alive"
    /\ procs[i].dur # None
    /\ IF tasks[i].pc = "done" THEN TRUE ELSE procs[i].dur[1] <= TIMEOUT
    /\ IF tasks[i].pc = "waiting"
       THEN \E rc \in ExitCodes, o \in Outputs :
               procs' = [procs EXCEPT ![i] =
                   [@ EXCEPT !.st = "exited", !.rc = Some(rc), !.out = o.out, !.err = o.err]]
       ELSE procs' = [procs EXCEPT ![i] = Reaped]
    /\ UNCHANGED <<_state, inflight, log, tasks, status_resp, sw, probeVars>>

\* line 103 returns: proc.communicate() finished within the timeout
TaskCommunicateDone(i) ==
    /\ tasks[i].pc = "waiting"
    /\ procs[i].st = "exited"
    /\ Complete(i, "exit", CompletedResult(procs[i]))
    /\ procs' = [procs EXCEPT ![i] = Reaped]
    /\ UNCHANGED <<inflight, log, status_resp, sw, probeVars>>

\* asyncio.wait_for replaced by a bare await: no timer
TaskTimeoutNever(i) ==
    /\ FALSE
    /\ UNCHANGED vars

\* line 103 raises TimeoutError: wait_for cancels proc.communicate(); neither it
\* nor the except branch signals the child
TaskTimeout(i) ==
    /\ tasks[i].pc = "waiting"
    /\ IF procs[i].dur = None THEN TRUE ELSE procs[i].dur[1] >= TIMEOUT
    /\ Complete(i, "timeout", TimeoutResult)
    /\ UNCHANGED <<inflight, log, procs, status_resp, sw, probeVars>>

\* --------------------------------------------------------- GET /mcp/status

\* a response that does not read update_running from _state
StatusResponseIdle(st) == [st EXCEPT !.update_running = FALSE]

\* lines 158-163
StatusResponse(st) ==
    [update_running |-> st.update_running,
     last_update_time |-> st.last_update_time,
     last_update_result |-> st.last_update_result,
     update_count |-> st.update_count]

get_status ==
    /\ status_resp' = Some(StatusResponse(_state))
    /\ UNCHANGED <<_state, inflight, log, tasks, procs, sw, probeVars>>

\* -------------------------------------------------------- POST /mcp/switch

\* proxy names of the engine
Nodes == {"HK-01", "JP-02", "US-03"}

\* how the engine can answer the GET of line 176: a response with a status code
\* and a body (JSON with or without an "all" list, or not JSON at all),
\* httpx.ConnectError, or another httpx error such as a read timeout
GetOutcomes ==
    [kind : {"response"}, status : {200, 404, 500}, json : BOOLEAN, all : SUBSET Nodes]
    \cup {[kind |-> k, status |-> 0, json |-> FALSE, all |-> {}] :
             k \in {"ConnectError", "ReadTimeout"}}

\* how the engine can answer the PUT of lines 194-197
PutOutcomes ==
    [kind : {"response"}, status : {204, 400, 404}]
    \cup {[kind |-> k, status |-> 0] : k \in {"ConnectError", "ReadTimeout"}}

NoOutcome == [kind |-> "none", status |-> 0]

\* a request: SwitchRequest.node, and what the handler has done about it
SwitchCall(node) ==
    [pc |-> "start", node |-> node, get |-> NoOutcome, puts |-> <<>>,
     put |-> NoOutcome, resp |-> 0]

\* the membership test of line 186 left out
IsMemberAlways(node, available) == TRUE

\* line 186: req.node in available
IsMember(node, available) == node \in available

\* lines 183-184: group_data.get("all", [])
Available(o) == o.all

\* sw.resp is the HTTP status the client gets: 200 with a SwitchResponse, the
\* status_code of the HTTPException raised, 500 for an exception nothing catches

\* lines 174-176: the client is opened and the GET is awaited
switch_node_get ==
    /\ sw.pc = "start"
    /\ sw' = [sw EXCEPT !.pc = "get_wait"]
    /\ UNCHANGED <<orchVars, probeVars>>

\* lines 176-197 and 212-216: the GET's await ends with outcome o
switch_node_got(o) ==
    /\ sw.pc = "get_wait"
    /\ CASE o.kind = "ConnectError" ->
              sw' = [sw EXCEPT !.pc = "done", !.get = o, !.resp = 502]
         [] o.kind = "ReadTimeout" ->
              sw' = [sw EXCEPT !.pc = "done", !.get = o, !.resp = 500]
         [] o.status # 200 ->
              sw' = [sw EXCEPT !.pc = "done", !.get = o, !.resp = 404]
         [] ~o.json ->
              sw' = [sw EXCEPT !.pc = "done", !.get = o, !.resp = 500]
         [] ~IsMember(sw.node, Available(o)) ->
              sw' = [sw EXCEPT !.pc = "done", !.get = o, !.resp = 400]
         [] OTHER ->
              sw' = [sw EXCEPT !.pc = "put_wait", !.get = o,
                               !.puts = Append(@, [name |-> sw.node])]
    /\ UNCHANGED <<orchVars, probeVars>>

\* lines 194-216: the PUT's await ends with outcome o
switch_node_put(o) ==
    /\ sw.pc = "put_wait"
    /\ CASE o.kind = "ConnectError" ->
              sw' = [sw EXCEPT !.pc = "done", !.put = o, !.resp = 502]
         [] o.kind = "ReadTimeout" ->
              sw' = [sw EXCEPT !.pc = "done", !.put = o, !.resp = 500]
         [] o.status = 204 ->
              sw' = [sw EXCEPT !.pc = "done", !.put = o, !.resp = 200]
         [] OTHER ->
              sw' = [sw EXCEPT !.pc = "done", !.put = o, !.resp = 500]
    /\ UNCHANGED <<orchVars, probeVars>>

\* ----------------------------------------------------------- test_nodes.py

\* proxies in the subscription file
MaxTargets == 3
\* the largest --workers value
MaxWorkers == 2

\* test_nodes.py:37 and :48, the latency reported for an unreachable node
UNREACHABLE_MS == 9999
\* the largest port socket.connect takes; beyond it (or below 0) it raises
\* OverflowError
MAX_PORT == 65535

\* --timeout values, in seconds (argparse takes any int; default 3)
Timeouts == {3, 15}

\* milliseconds a connect that succeeds may have taken
Latencies == {10, 30, 9999, 12000}

\* the YAML scalars that int() of line 34 can read, and their values
IntLiterals == ("443" :> 443) @@ ("0" :> 0) @@ ("-1" :> (0 - 1)) @@ ("70000" :> 70000)

\* the port scalars found in a subscription file
PortTexts == DOMAIN IntLiterals \cup {"abc"}

\* int(x): the value, or ValueError
PyInt(text) ==
    IF text \in DOMAIN IntLiterals
    THEN [ok |-> TRUE, val |-> IntLiterals[text]]
    ELSE [ok |-> FALSE, val |-> 0]

\* the server and port of a proxy entry
TargetKinds ==
    {[server |-> "", port |-> "443"]}
    \cup {[server |-> "example.net", port |-> p] : p \in PortTexts}

\* what sock.connect of line 43 can do within the socket timeout
ConnectOutcomes(timeout) ==
    {[kind |-> "connected", ms |-> l] : l \in {m \in Latencies : m <= timeout * 1000}}
    \cup {[kind |-> k, ms |-> 0] :
             k \in {"socket.timeout", "ConnectionRefusedError", "OSError"}}

Return(v, connects) == [raised |-> FALSE, value |-> v, exc |-> "", connects |-> connects]

Raise(e, connects) == [raised |-> TRUE, value |-> <<>>, exc |-> e, connects |-> connects]

\* lines 21-48. The result tuple is <<name, addr, latency_ms, ok>>; net is what the
\* network does if line 43 is reached with a port that connect takes
test_tcp_latency(proxy, timeout, net) ==
    LET name == proxy.name
        server == proxy.server
        port == PyInt(proxy.port)
        addr == <<server, port.val>>
    IN  IF ~port.ok THEN Raise("ValueError", 0)
        ELSE IF server = "" \/ port.val = 0
        THEN Return(<<name, addr, UNREACHABLE_MS, 0>>, 0)
        ELSE IF port.val < 0 \/ port.val > MAX_PORT THEN Raise("OverflowError", 1)
        ELSE IF net.kind = "connected" THEN Return(<<name, addr, net.ms, 1>>, 1)
        ELSE Return(<<name, addr, UNREACHABLE_MS, 0>>, 1)

\* line 87: key=lambda x: x[2]
SortKey(x) == x[3]

RECURSIVE Insert(_, _)
\* x put behind every element of the sorted s whose key is not larger
Insert(x, s) ==
    IF s = <<>> THEN <<x>>
    ELSE IF SortKey(Head(s)) <= SortKey(x)
         THEN <<Head(s)>> \o Insert(x, Tail(s))
         ELSE <<x>> \o s

RECURSIVE SortInto(_, _)
SortInto(s, acc) ==
    IF s = <<>> THEN acc ELSE SortInto(Tail(s), Insert(Head(s), acc))

\* list.sort: ascending by key, stable
Sort(s) == SortInto(s, <<>>)

PendingFuture == [st |-> "pending", ret |-> Return(<<>>, 0)]

Exit(status, out, err) == [pc |-> "exit", status |-> status, out |-> out, err |-> err]

Running == {i \in DOMAIN futures : futures[i].st = "running"}

\* lines 68-82: no proxies is an error; otherwise every probe is submitted
MainStart ==
    /\ main.pc = "start"
    /\ IF proxies = <<>>
       THEN /\ main' = Exit(1, <<>>, "no proxies")
            /\ UNCHANGED futures
       ELSE /\ main' = [main EXCEPT !.pc = "collect"]
            /\ futures' = [i \in DOMAIN proxies |-> PendingFuture]
    /\ UNCHANGED <<orchVars, sw, proxies, args, results>>

\* a pool that starts a thread for every queued probe
ProbeStartUnbounded(i) ==
    /\ futures[i].st = "pending"
    /\ futures' = [futures EXCEPT ![i].st = "running"]
    /\ UNCHANGED <<orchVars, sw, proxies, args, results, main>>

\* a worker thread of the pool takes the oldest queued probe
ProbeStart(i) ==
    /\ futures[i].st = "pending"
    /\ \A j \in DOMAIN futures : j < i => futures[j].st # "pending"
    /\ Cardinality(Running) < args.workers
    /\ futures' = [futures EXCEPT ![i].st = "running"]
    /\ UNCHANGED <<orchVars, sw, proxies, args, results, main>>

\* the probe returns or raises; the future is done
ProbeFinish(i) ==
    /\ futures[i].st = "running"
    /\ \E net \in ConnectOutcomes(args.timeout) :
          futures' = [futures EXCEPT ![i] =
              [st |-> "finished", ret |-> test_tcp_latency(proxies[i], args.timeout, net)]]
    /\ UNCHANGED <<orchVars, sw, proxies, args, results, main>>

\* lines 83-84: as_completed hands a done future to main; future.result() returns
\* the probe's tuple or raises what the probe raised, which nothing catches
Collect(i) ==
    /\ main.pc = "collect"
    /\ futures[i].st = "finished"
    /\ futures' = [futures EXCEPT ![i].st = "collected"]
    /\ IF futures[i].ret.raised
       THEN /\ main' = Exit(1, <<>>, "traceback")
            /\ UNCHANGED results
       ELSE /\ results' = Append(results, futures[i].ret.value)
            /\ UNCHANGED main
    /\ UNCHANGED <<orchVars, sw, proxies, args>>

\* lines 86-110: sort, then print the first result's name or fail
Rank ==
    /\ main.pc = "collect"
    /\ \A i \in DOMAIN futures : futures[i].st = "collected"
    /\ results' = Sort(results)
    /\ LET best == results'[1]
       IN  IF best[4] = 0
           THEN main' = Exit(1, <<>>, "all unreachable")
           ELSE main' = Exit(0, <<best[1]>>, "")
    /\ UNCHANGED <<orchVars, sw, proxies, args, futures>>

\* ------------------------------------------------- the update orchestrator

Last(q) == q[Len(q)]

\* the requests handled while update_count was k
Handled(k) == {i \in DOMAIN log : log[i].count = k}

AcceptedIn(k) == {i \in Handled(k) : log[i].status = "accepted"}

Alive == {i \in DOMAIN procs : procs[i].st = "alive"}

Unfinished == {i \in DOMAIN tasks : tasks[i].pc # "done"}

\* C1: single-flight. Calls are concurrent when they are handled with no
\* completion recorded between them. Of all the trigger_update calls handled
\* between two completions (in particular calls that arrived together while
\* update_running was false), exactly one, the first handled, is answered
\* 'accepted' and starts a _run_update task; every other one is answered 'busy'.
\* One task exists per accepted call and at most one task is unfinished.
SingleFlight ==
    /\ \A k \in 0 .. Len(log) :
          Handled(k) # {} =>
              \E a \in Handled(k) :
                  /\ AcceptedIn(k) = {a}
                  /\ \A i \in Handled(k) : a <= i
    /\ Len(tasks) = Cardinality({i \in DOMAIN log : log[i].status = "accepted"})
    /\ Cardinality(Unfinished) <= 1

\* two calls that both arrived while update_running was false, handled before
\* any completion: the first accepted, the second busy
SingleFlightWitness ==
    \E i, j \in DOMAIN log :
        /\ i < j
        /\ ~log[i].arrRunning /\ ~log[j].arrRunning
        /\ log[i].arrCount = log[i].count /\ log[j].arrCount = log[j].count
        /\ log[i].count = log[j].count
        /\ log[i].status = "accepted" /\ log[j].status = "busy"

\* C2: runs of the pipeline never overlap: at most one child process started by
\* the orchestrator is executing.
NoOverlap == Cardinality(Alive) <= 1

\* C3: a run that ended by the timeout has its child terminated, and while it is
\* the last completed run last_update_result is the timeout failure.
TimeoutEnforced ==
    \A i \in DOMAIN tasks :
        tasks[i].end = "timeout" =>
            /\ procs[i].st # "alive"
            /\ (i = Len(tasks) => _state.last_update_result = Some(TimeoutResult))

\* the outcome line 105-120 must record for run i, given how the run ended
OutcomeOf(i, r) ==
    CASE tasks'[i].end = "exit" ->
            /\ procs[i].st = "exited"
            /\ DOMAIN r = {"success", "returncode", "stdout", "stderr"}
            /\ r.returncode = procs[i].rc[1]
            /\ r.success = (procs[i].rc[1] = 0)
      [] tasks'[i].end = "timeout" ->
            /\ DOMAIN r = {"success", "error"}
            /\ ~r.success /\ r.error = TimeoutResult.error
      [] tasks'[i].end = "error" ->
            /\ DOMAIN r = {"success", "error"}
            /\ ~r.success /\ r.error \in ExecErrors
      [] OTHER -> FALSE

Completes(i) == tasks[i].pc # "done" /\ tasks'[i].pc = "done"

\* C4: exactly-once completion bookkeeping. Whichever way an accepted run ends, the
\* step that ends it adds exactly 1 to update_count, clears update_running, sets
\* last_update_time and stores that run's outcome; a finished run never completes
\* again, so update_count is the number of finished runs.
CompletionOnce ==
    /\ [](_state.update_count = Cardinality(DOMAIN tasks \ Unfinished))
    /\ [][\A i \in DOMAIN tasks :
            /\ Completes(i) =>
                  /\ _state'.update_count = _state.update_count + 1
                  /\ ~_state'.update_running
                  /\ _state'.last_update_time # None
                  /\ _state'.last_update_result # None
                  /\ OutcomeOf(i, _state'.last_update_result[1])
            /\ tasks[i].pc = "done" => tasks'[i] = tasks[i]
            /\ ~Completes(i) /\ (\A j \in DOMAIN tasks : ~Completes(j)) =>
                  _state'.update_count = _state.update_count]_vars

\* two runs finished, the first by the timeout, the second by a non-zero exit
CompletionOnceWitness ==
    /\ Len(tasks) = 2
    /\ tasks[1].end = "timeout" /\ tasks[2].end = "exit"
    /\ _state.update_count = 2
    /\ _state.last_update_result[1].success = FALSE
    /\ ~_state.update_running

\* C5: a trigger_update handled while update_running is true answers 'busy',
\* leaves every field of _state unchanged and starts no task and no process.
BusyChangesNothing ==
    [][\A c \in Clients :
          trigger_update(c) /\ _state.update_running =>
              /\ Last(log').status = "busy"
              /\ UNCHANGED <<_state, tasks, procs>>]_vars

\* a call that arrived during a run was answered busy
BusyWitness ==
    \E i \in DOMAIN log :
        log[i].status = "busy" /\ log[i].arrRunning /\ Len(tasks) = 1

\* C6: non-blocking control surface. The step that answers 'accepted' leaves the
\* new task not yet started (the answer does not wait for the run);
\* get_status can be served in every state and answers the current _state, with
\* update_running = true whenever a run is unfinished.
NonBlocking ==
    /\ [][\A c \in Clients :
            trigger_update(c) /\ ~_state.update_running =>
                /\ Last(log').status = "accepted"
                /\ Last(tasks').pc = "created"
                /\ Len(tasks') = Len(tasks) + 1
                /\ _state'.update_count = _state.update_count]_vars
    /\ [](ENABLED get_status)
    /\ [][get_status =>
            /\ status_resp' = Some(_state)
            /\ Unfinished # {} => status_resp'[1].update_running]_vars

\* a status snapshot taken while the accepted run's child is still running
NonBlockingWitness ==
    /\ Len(log) >= 1 /\ Last(log).status = "accepted"
    /\ Len(tasks) >= 1 /\ Last(tasks).pc = "waiting" /\ Last(procs).st = "alive"
    /\ status_resp # None
    /\ status_resp[1].update_running
    /\ status_resp[1].update_count = Last(log).count

\* C10: switch_node sends the PUT only after the group lookup answered 200 and the
\* requested node is in its "all" list, and sends it once. Otherwise no PUT is
\* sent: the call fails with 404 when the lookup's status is not 200 and with 400
\* when the node is not in the list. A ConnectError at the GET or at the PUT
\* fails with 502, and a PUT answered with a status other than 204 fails with 500.
SwitchContract ==
    /\ Len(sw.puts) <= 1
    /\ Len(sw.puts) = 1 =>
          /\ sw.get.kind = "response" /\ sw.get.status = 200
          /\ sw.node \in sw.get.all
          /\ sw.puts[1].name = sw.node
    /\ sw.pc = "done" =>
          /\ sw.get.kind = "response" /\ sw.get.status # 200 =>
                sw.resp = 404 /\ sw.puts = <<>>
          /\ sw.get.kind = "response" /\ sw.get.status = 200 /\ sw.get.json
                /\ sw.node \notin sw.get.all =>
                sw.resp = 400 /\ sw.puts = <<>>
          /\ sw.get.kind = "ConnectError" => sw.resp = 502 /\ sw.puts = <<>>
          /\ sw.put.kind = "ConnectError" => sw.resp = 502
          /\ sw.put.kind = "response" /\ sw.put.status # 204 => sw.resp = 500
          /\ sw.put.kind = "response" /\ sw.put.status = 204 => sw.resp = 200

\* the PUT was sent for a member of the group and the engine answered 400
SwitchContractWitness ==
    /\ sw.pc = "done"
    /\ Len(sw.puts) = 1
    /\ sw.put.kind = "response" /\ sw.put.status = 400
    /\ sw.resp = 500

\* ------------------------------------------------------------- the prober

\* main() got past the probing round to the ranking of lines 86-110
Ranked == main.pc = "exit" /\ main.err \notin {"traceback", "no proxies"}

Reachable == {j \in DOMAIN results : results[j][4] = 1}

\* C7: a probing round over N targets ends with exactly N results, one for each
\* input target, and no failure of a single probe aborts the round.
RoundComplete ==
    main.pc = "exit" =>
        /\ main.err # "traceback"
        /\ Len(results) = Len(proxies)
        /\ \A i \in DOMAIN proxies :
              Cardinality({j \in DOMAIN results : results[j][1] = proxies[i].name}) = 1

\* C8: the ranked list has every reachable result before every unreachable one,
\* and latency non-decreasing within each of the two groups.
RankedSorted ==
    Ranked =>
        \A i, j \in DOMAIN results :
            i < j =>
                /\ results[j][4] = 1 => results[i][4] = 1
                /\ results[i][4] = results[j][4] => results[i][3] <= results[j][3]

\* C9: with a reachable result, the round succeeds and prints the name of the first
\* element of the ranked list, which is reachable and of minimal latency among the
\* reachable ones; with none, it prints nothing and fails with the 'all nodes
\* unreachable' error, exit status 1.
Selection ==
    Ranked =>
        IF Reachable # {}
        THEN /\ main.status = 0
             /\ results[1][4] = 1
             /\ main.out = <<results[1][1]>>
             /\ \A j \in Reachable : results[1][3] <= results[j][3]
        ELSE /\ main.status = 1
             /\ main.out = <<>>
             /\ main.err = "all unreachable"

\* C11: update_running is true exactly while an accepted run has not had its
\* completion recorded, and it is never false while a pipeline started by an
\* accepted run is still executing (neither finished nor terminated).
RunningSpan ==
    /\ _state.update_running <=> Unfinished # {}
    /\ ~_state.update_running => Alive = {}

\* which branch of lines 105-120 built the dict r
ResultKind(r) ==
    IF "returncode" \in DOMAIN r THEN "exit"
    ELSE IF r.error = TimeoutResult.error THEN "timeout"
    ELSE "error"

\* C12: completion is atomic for readers. A status snapshot with update_count = k
\* shows no result when k = 0 and otherwise the outcome of the k-th run, which is
\* finished; if it shows update_running, that is a later run. update_count, the
\* stored result and the clearing of update_running change only together, in the
\* one step that completes a run, and a snapshot is the _state of one moment.
SnapshotAtomic ==
    /\ [](status_resp # None =>
            LET s == status_resp[1]
                k == s.update_count
            IN  /\ k <= Len(tasks)
                /\ k = 0 <=> s.last_update_result = None
                /\ k > 0 =>
                      /\ tasks[k].pc = "done"
                      /\ ResultKind(s.last_update_result[1]) = tasks[k].end
                /\ s.update_running => k < Len(tasks))
    /\ [][/\ get_status => status_resp' = Some(_state)
          /\ _state'.update_count # _state.update_count
                \/ _state'.last_update_result # _state.last_update_result
                \/ (_state.update_running /\ ~_state'.update_running) =>
                   \E i \in DOMAIN tasks :
                       /\ Completes(i)
                       /\ _state'.update_count = i
                       /\ ~_state'.update_running
                       /\ _state'.last_update_result # None
                       /\ ResultKind(_state'.last_update_result[1]) = tasks'[i].end]_vars

\* a snapshot taken after the first run ended by the timeout, before any other run
SnapshotAtomicWitness ==
    /\ status_resp # None
    /\ status_resp[1].update_count = 1
    /\ ~status_resp[1].update_running
    /\ status_resp[1].last_update_result = Some(TimeoutResult)
    /\ Len(tasks) = 1 /\ tasks[1].end = "timeout"

\* the probes' results in the order of the input list
InputOrder == [i \in DOMAIN futures |-> futures[i].ret.value]

\* C13: the ranked list does not depend on the order in which the probes
\* complete: it is the probes' results sorted by key, with results of equal key
\* in the order of their targets in the input list.
RankDeterministic == Ranked => results = Sort(InputOrder)

\* C14: a target with an empty host or a port that is zero or negative is
\* recorded as unreachable at once: its probe makes no connection attempt and
\* raises nothing.
InvalidTargetLocal ==
    \A i \in DOMAIN futures :
        LET port == PyInt(proxies[i].port)
        IN  /\ futures[i].st \in {"finished", "collected"}
            /\ port.ok
            /\ proxies[i].server = "" \/ port.val <= 0
            => /\ ~futures[i].ret.raised
               /\ futures[i].ret.connects = 0
               /\ futures[i].ret.value[4] = 0

\* where a future is in its life
Stage(f) ==
    CASE f.st = "pending" -> 0
      [] f.st = "running" -> 1
      [] f.st = "finished" -> 2
      [] f.st = "collected" -> 3

\* C17: at most args.workers probes execute at any moment; a probe starts only
\* from the queue and only when fewer than args.workers are executing; a future
\* only moves forward (queued, executing, done, collected), so every target is
\* probed once, with at most one connection attempt.
WorkerLimit ==
    /\ [](Cardinality(Running) <= args.workers)
    /\ [](\A i \in DOMAIN futures : futures[i].ret.connects <= 1)
    /\ [][\A i \in DOMAIN futures :
            /\ Stage(futures'[i]) \in {Stage(futures[i]), Stage(futures[i]) + 1}
            /\ futures[i].st # "running" /\ futures'[i].st = "running" =>
                  Cardinality(Running) < args.workers]_vars

\* two workers are busy, a third target waits in the queue
WorkerLimitWitness ==
    /\ args.workers = 2
    /\ Cardinality(Running) = 2
    /\ \E i \in DOMAIN futures : futures[i].st = "pending"

\* C15: the recorded outcome classifies how the run ended. success is true
\* exactly when communicate() returned before the timeout and the exit status
\* is 0; an exit records the return code and both output tails; a timeout (only
\* possible when the child has not exited before TIMEOUT seconds) records an
\* error text and no return code, and that text is not the text of another
\* error; a failure to start the child records the exception's text. Every task
\* ends in one of these three ways: none is left with an exception.
OutcomeClassified ==
    /\ [](\A i \in DOMAIN tasks :
            /\ tasks[i].pc \in {"created", "waiting", "done"}
            /\ tasks[i].pc = "done" <=> tasks[i].end \in {"exit", "timeout", "error"})
    /\ [][\A i \in DOMAIN tasks :
            Completes(i) =>
               /\ _state'.last_update_result # None
               /\ LET r == _state'.last_update_result[1]
                      end == tasks'[i].end
                  IN  /\ r.success <=> (end = "exit" /\ procs[i].rc = Some(0))
                      /\ end = "exit" =>
                            /\ DOMAIN r = {"success", "returncode", "stdout", "stderr"}
                            /\ r.returncode = procs[i].rc[1]
                      /\ end = "timeout" =>
                            /\ DOMAIN r = {"success", "error"}
                            /\ r.error = TimeoutResult.error
                            /\ r.error \notin ExecErrors
                            /\ IF procs[i].dur = None THEN TRUE
                               ELSE procs[i].dur[1] >= TIMEOUT
                      /\ end = "error" =>
                            /\ DOMAIN r = {"success", "error"}
                            /\ r.error \in ExecErrors
                            /\ procs[i].st = "none"]_vars

\* a run that ended with exit status 1
OutcomeClassifiedWitness ==
    /\ _state.last_update_result # None
    /\ "returncode" \in DOMAIN _state.last_update_result[1]
    /\ _state.last_update_result[1].returncode = 1
    /\ ~_state.last_update_result[1].success

\* the stored string is the last TAIL characters of an output of n characters
IsTailOf(s, n) ==
    /\ StrLen(s) <= TAIL
    /\ s.hi = n
    /\ n > TAIL => StrLen(s) = TAIL
    /\ n <= TAIL => s.lo = 1

\* C18: the stdout and stderr stored in last_update_result are never longer than
\* 3000 characters; of a longer output exactly the last 3000 characters are
\* stored, and a shorter output is stored whole.
Truncation ==
    /\ [](_state.last_update_result # None =>
            LET r == _state.last_update_result[1]
            IN  "stdout" \in DOMAIN r =>
                   StrLen(r.stdout) <= TAIL /\ StrLen(r.stderr) <= TAIL)
    /\ [][\A i \in DOMAIN tasks :
            Completes(i) /\ tasks'[i].end = "exit" =>
               /\ _state'.last_update_result # None
               /\ "stdout" \in DOMAIN _state'.last_update_result[1]
               /\ IsTailOf(_state'.last_update_result[1].stdout, procs[i].out)
               /\ IsTailOf(_state'.last_update_result[1].stderr, procs[i].err)]_vars

\* 3001 characters of stdout, of which the first is dropped, and no stderr
TruncationWitness ==
    /\ _state.last_update_result # None
    /\ "stdout" \in DOMAIN _state.last_update_result[1]
    /\ _state.last_update_result[1].stdout = [lo |-> 2, hi |-> TAIL + 1]
    /\ _state.last_update_result[1].stderr = [lo |-> 1, hi |-> 0]

\* the fields that describe the last completed run
LastRun(st) == <<st.last_update_time, st.last_update_result, st.update_count>>

\* C19: an accepted trigger_update changes update_running only; the other three
\* fields change in no step but the one that records a run's completion, so a
\* status response built during a run has update_running = true and the
\* previous run's time, result and count.
AcceptFrame ==
    [][/\ Len(log') > Len(log) /\ Last(log').status = "accepted" =>
             /\ ~_state.update_running
             /\ _state' = [_state EXCEPT !.update_running = TRUE]
       /\ (\A i \in DOMAIN tasks : ~Completes(i)) => LastRun(_state') = LastRun(_state)
       /\ get_status /\ _state.update_running =>
             /\ status_resp'[1].update_running
             /\ LastRun(status_resp'[1]) = LastRun(_state)
             /\ _state.update_count = Cardinality(DOMAIN tasks \ Unfinished)]_vars

\* a snapshot taken during the second run shows the first run's result
AcceptFrameWitness ==
    /\ status_resp # None
    /\ status_resp[1].update_running
    /\ status_resp[1].update_count = 1
    /\ status_resp[1].last_update_result # None
    /\ Len(tasks) = 2 /\ tasks[2].pc = "waiting"

Accepted == {i \in DOMAIN log : log[i].status = "accepted"}

\* C20: update_count is the number of accepted triggers, less one while
\* update_running is true; it never decreases; last_update_result and
\* last_update_time are null exactly when update_count is 0.
CountAccounting ==
    /\ [](/\ _state.update_count =
               Cardinality(Accepted) - (IF _state.update_running THEN 1 ELSE 0)
          /\ _state.last_update_result = None <=> _state.update_count = 0
          /\ _state.last_update_time = None <=> _state.update_count = 0)
    /\ [][_state'.update_count >= _state.update_count]_vars

\* the second accepted run is under way
CountAccountingWitness ==
    /\ Cardinality(Accepted) = 2
    /\ _state.update_running
    /\ _state.update_count = 1
    /\ _state.last_update_time # None

\* the n-th accepted run has been completed
RunDone(n) == IF n \in DOMAIN tasks THEN tasks[n].pc = "done" ELSE FALSE

\* the n-th trigger has been accepted and its run is not completed
RunOpen(n) == IF n \in DOMAIN tasks THEN tasks[n].pc # "done" ELSE FALSE

\* C16: every accepted run ends. Whenever update_running is true it is false
\* again later, also when the child never exits, because line 103 times out;
\* and a trigger_update handled while update_running is false is accepted.
RunEnds ==
    /\ _state.update_running ~> ~_state.update_running
    /\ \A n \in 1..MaxRequests :
          RunOpen(n) ~> RunDone(n)
    /\ [][\A c \in Clients :
            inflight[c].pend /\ ~inflight'[c].pend /\ ~_state.update_running =>
               /\ Last(log').status = "accepted"
               /\ _state'.update_running]_vars

\* the first run timed out on a child that never exits, and the second trigger
\* has been accepted
RunEndsWitness ==
    /\ Len(tasks) = 2
    /\ tasks[1].end = "timeout"
    /\ procs[1].st = "alive" /\ procs[1].dur = None
    /\ Last(log).status = "accepted"
    /\ _state.update_running

Init ==
    /\ _state = InitState
    /\ inflight = [c \in Clients |-> NoRequest]
    /\ log = <<>>
    /\ tasks = <<>>
    /\ procs = <<>>
    /\ status_resp = None
    /\ sw = NoSwitch
    /\ NoProbing

Next ==
    \/ \E c \in Clients : Arrive(c)
    \/ \E c \in Clients : trigger_update(c)
    \/ \E i \in DOMAIN tasks : TaskStart(i)
    \/ \E i \in DOMAIN tasks : ProcExit(i)
    \/ \E i \in DOMAIN tasks : TaskCommunicateDone(i)
    \/ \E i \in DOMAIN tasks : TaskTimeout(i)
    \/ get_status

Spec == Init /\ [][Next]_vars

\* the event loop runs every task that is ready: a created task gets its first
\* step, the timer of wait_for fires, the end of the child wakes communicate();
\* a child that needs d seconds exits after d seconds
LiveSpec ==
    /\ Spec
    /\ WF_vars(\E i \in DOMAIN tasks : TaskStart(i))
    /\ WF_vars(\E i \in DOMAIN tasks : ProcExit(i))
    /\ WF_vars(\E i \in DOMAIN tasks : TaskCommunicateDone(i))
    /\ WF_vars(\E i \in DOMAIN tasks : TaskTimeout(i))

\* one POST /mcp/switch, for any requested node
SwitchInit ==
    /\ _state = InitState
    /\ inflight = [c \in Clients |-> NoRequest]
    /\ log = <<>>
    /\ tasks = <<>>
    /\ procs = <<>>
    /\ status_resp = None
    /\ sw \in {SwitchCall(n) : n \in Nodes}
    /\ NoProbing

SwitchNext ==
    \/ switch_node_get
    \/ \E o \in GetOutcomes : switch_node_got(o)
    \/ \E o \in PutOutcomes : switch_node_put(o)

SwitchSpec == SwitchInit /\ [][SwitchNext]_vars

\* one run of test_nodes.py, for any subscription file and arguments
ProbeInit ==
    /\ _state = InitState
    /\ inflight = [c \in Clients |-> NoRequest]
    /\ log = <<>>
    /\ tasks = <<>>
    /\ procs = <<>>
    /\ status_resp = None
    /\ sw = NoSwitch
    /\ \E n \in 0 .. MaxTargets :
          proxies \in {[i \in 1 .. n |->
                          [name |-> i, server |-> k[i].server, port |-> k[i].port]] :
                       k \in [1 .. n -> TargetKinds]}
    /\ args \in [workers : 1 .. MaxWorkers, timeout : Timeouts]
    /\ futures = <<>>
    /\ results = <<>>
    /\ main = [pc |-> "start", status |-> 0, out |-> <<>>, err |-> ""]

ProbeNext ==
    \/ MainStart
    \/ \E i \in DOMAIN futures : ProbeStart(i)
    \/ \E i \in DOMAIN futures : ProbeFinish(i)
    \/ \E i \in DOMAIN futures : Collect(i)
    \/ Rank

ProbeSpec == ProbeInit /\ [][ProbeNext]_vars
====
